---- MODULE Spec2Model ----
(***************************************************************************)
(* Model of wgengine/monitor/monitor_windows.go: the winMon bridge between *)
(* the Windows change notifications (callbacks) and the blocking Receive.  *)
(*                                                                         *)
(* Threads of control:                                                     *)
(*   - the constructor newOSMon (register address, register route, ctx),   *)
(*   - the OS firing the registered callbacks, each spawning a goroutine   *)
(*     running somethingChanged,                                           *)
(*   - one consumer calling Receive repeatedly,                            *)
(*   - one owner calling Close (sequential calls).                         *)
(*                                                                         *)
(* A Go select with several ready cases picks any of them; a select with   *)
(* no ready case parks the goroutine, and the first channel operation that *)
(* can complete one of its cases (a send, a receive, a close of Done)      *)
(* decides its outcome in the step of that operation.                      *)
(***************************************************************************)
EXTENDS Naturals, Sequences, FiniteSets

\* Bounds of the model.
MaxFirings == 2     \* callback firings explored
MaxCloses == 2      \* sequential Close calls explored

\* make(chan eventMessage, 1)
ChanCap == 1

VARIABLES
    cons,                   \* position of newOSMon
    openErr,                \* error newOSMon returns ("none" while running / on success)
    ctx,                    \* m.ctx: "nil", "live", "cancelled"
    noDeadlockTicker,       \* "running" or "stopped"
    addressChangeCallback,  \* m.addressChangeCallback: "nil" or "set"
    routeChangeCallback,    \* m.routeChangeCallback: "nil" or "set"
    osReg,                  \* what the OS has registered: [addr, route] -> BOOLEAN
    messagec,               \* buffered channel contents, a sequence of events
    fired,                  \* kinds of the callback firings so far, in firing order
    taskpc,                 \* position of the goroutine spawned by each firing
    crashed,                \* a goroutine panicked (nil m.ctx): the process is gone
    rxpc,                   \* position of the consumer inside Receive
    rxRes,                  \* outcome of the current / last Receive call
    closepc,                \* position of the owner inside Close
    closeRet,               \* named result ret of the running Close call
    closeCur,               \* what the running Close call did to each subscription
    \* history variables
    received,               \* events returned by successful Receive calls, in order
    enqLog,                 \* firing ids in the order their events entered the channel
    closeLog,               \* one record per returned Close call
    regLog,                 \* what newOSMon attempted: registrations and rollback
    deliveredAfterCancel,   \* a Receive select took an event with ctx cancelled
    enqAfterCancel,         \* a somethingChanged select sent with ctx cancelled
    rxEnteredCancelled,     \* the current Receive call started with ctx cancelled
    blockedAtClose          \* the current Receive call was parked when cancel ran

vars == <<cons, openErr, ctx, noDeadlockTicker, addressChangeCallback,
          routeChangeCallback, osReg, messagec, fired, taskpc, crashed,
          rxpc, rxRes, closepc, closeRet, closeCur, received, enqLog, closeLog,
          regLog, deliveredAfterCancel, enqAfterCancel, rxEnteredCancelled,
          blockedAtClose>>

consVars == <<cons, openErr, regLog>>
subVars == <<addressChangeCallback, routeChangeCallback, osReg>>
taskVars == <<fired, taskpc, enqLog, enqAfterCancel>>
rxVars == <<rxpc, rxRes, received, deliveredAfterCancel, rxEnteredCancelled, blockedAtClose>>
closeVars == <<closepc, closeRet, closeCur, closeLog>>

Kinds == {"addr", "route"}

\* eventMessage{eventType: evt}; id is the firing it stems from (history only).
eventMessage(i, evt) == [id |-> i, kind |-> evt]

NoResult == [id |-> 0, kind |-> "none"]
errClosed == [id |-> 0, kind |-> "errClosed"]

Tasks == 1..Len(fired)

----------------------------------------------------------------------------
\* State after the struct literal of newOSMon (lines 43-47): channel made,
\* ticker running, nothing registered, no context yet.
Init ==
    /\ cons = "regAddr"
    /\ openErr = "none"
    /\ ctx = "nil"
    /\ noDeadlockTicker = "running"
    /\ addressChangeCallback = "nil"
    /\ routeChangeCallback = "nil"
    /\ osReg = [addr |-> FALSE, route |-> FALSE]
    /\ messagec = << >>
    /\ fired = << >>
    /\ taskpc = << >>
    /\ crashed = FALSE
    /\ rxpc = "idle"
    /\ rxRes = NoResult
    /\ closepc = "idle"
    /\ closeRet = "nil"
    /\ closeCur = [addr |-> "skipped", route |-> "skipped"]
    /\ received = << >>
    /\ enqLog = << >>
    /\ closeLog = << >>
    /\ regLog = [addr |-> "none", route |-> "none", rollback |-> "none"]
    /\ deliveredAfterCancel = FALSE
    /\ enqAfterCancel = FALSE
    /\ rxEnteredCancelled = FALSE
    /\ blockedAtClose = FALSE

----------------------------------------------------------------------------
\* The OS side of Unregister: a successful call removes the registration, a
\* failed call leaves it as it was.
Unregister(reg, ok) == IF ok THEN FALSE ELSE reg

\* newOSMon, lines 50-54: register the address-change callback.
NewRegisterAddress ==
    /\ ~crashed
    /\ cons = "regAddr"
    /\ \E ok \in BOOLEAN :
        IF ok
        THEN /\ addressChangeCallback' = "set"
             /\ osReg' = [osReg EXCEPT !.addr = TRUE]
             /\ cons' = "regRoute"
             /\ openErr' = openErr
             /\ regLog' = [regLog EXCEPT !.addr = "ok"]
        ELSE /\ cons' = "failed"
             /\ openErr' = "addrErr"
             /\ regLog' = [regLog EXCEPT !.addr = "fail"]
             /\ UNCHANGED <<addressChangeCallback, osReg>>
    /\ UNCHANGED <<ctx, noDeadlockTicker, routeChangeCallback, messagec, crashed>>
    /\ UNCHANGED <<taskVars, rxVars, closeVars>>

\* newOSMon, lines 56-57: register the route-change callback.
NewRegisterRoute ==
    /\ ~crashed
    /\ cons = "regRoute"
    /\ \E ok \in BOOLEAN :
        IF ok
        THEN /\ routeChangeCallback' = "set"
             /\ osReg' = [osReg EXCEPT !.route = TRUE]
             /\ cons' = "mkctx"
             /\ regLog' = [regLog EXCEPT !.route = "ok"]
        ELSE /\ cons' = "rollback"
             /\ regLog' = [regLog EXCEPT !.route = "fail"]
             /\ UNCHANGED <<routeChangeCallback, osReg>>
    /\ UNCHANGED <<openErr, ctx, noDeadlockTicker, addressChangeCallback, messagec, crashed>>
    /\ UNCHANGED <<taskVars, rxVars, closeVars>>

\* newOSMon, lines 58-60: route registration failed; Unregister the address
\* callback (its result is discarded) and return the registration error.
NewRollback ==
    /\ ~crashed
    /\ cons = "rollback"
    /\ \E ok \in BOOLEAN :
        /\ osReg' = [osReg EXCEPT !.addr = Unregister(osReg.addr, ok)]
        /\ regLog' = [regLog EXCEPT !.rollback = IF ok THEN "ok" ELSE "fail"]
    /\ cons' = "failed"
    /\ openErr' = "routeErr"
    /\ UNCHANGED <<ctx, noDeadlockTicker, addressChangeCallback, routeChangeCallback,
                   messagec, crashed>>
    /\ UNCHANGED <<taskVars, rxVars, closeVars>>

\* newOSMon, lines 63-65: create the cancellation context and return m.
NewContext ==
    /\ ~crashed
    /\ cons = "mkctx"
    /\ ctx' = "live"
    /\ cons' = "done"
    /\ UNCHANGED <<openErr, regLog, noDeadlockTicker, messagec, crashed>>
    /\ UNCHANGED <<subVars, taskVars, rxVars, closeVars>>

----------------------------------------------------------------------------
\* The callback running the select itself, on the thread of the OS: it can
\* return only when the send or the Done case can proceed.
SpawnInline(evt) ==
    /\ ~crashed
    /\ Len(fired) < MaxFirings
    /\ ctx # "live" \/ Len(messagec) < ChanCap
    /\ fired' = Append(fired, evt)
    /\ IF ctx = "live"
       THEN /\ taskpc' = Append(taskpc, "sent")
            /\ messagec' = Append(messagec, eventMessage(Len(fired) + 1, evt))
            /\ enqLog' = Append(enqLog, Len(fired) + 1)
       ELSE /\ taskpc' = Append(taskpc, "abandoned")
            /\ UNCHANGED <<messagec, enqLog>>
    /\ UNCHANGED <<ctx, noDeadlockTicker, crashed, enqAfterCancel>>
    /\ UNCHANGED <<consVars, subVars, rxVars, closeVars>>

\* The callbacks: `go m.somethingChanged(evt)` and return to Windows.
Spawn(evt) ==
    /\ ~crashed
    /\ Len(fired) < MaxFirings
    /\ fired' = Append(fired, evt)
    /\ taskpc' = Append(taskpc, "ready")
    /\ UNCHANGED <<ctx, noDeadlockTicker, messagec, crashed, enqLog, enqAfterCancel>>
    /\ UNCHANGED <<consVars, subVars, rxVars, closeVars>>

\* Windows calls the address callback while it is registered.
unicastAddressChanged ==
    /\ osReg.addr
    /\ Spawn("addr")

\* Windows calls the route callback while it is registered.
routeChanged ==
    /\ osReg.route
    /\ Spawn("route")

----------------------------------------------------------------------------
\* Channel helpers for messagec.
SlotFreeTwo(q) == Len(q) < ChanCap + 1
SlotFree(q) == Len(q) < ChanCap

DequeueKeep(q) == q
\* `msg := <-m.messagec` removes the head of the buffer.
Dequeue(q) == Tail(q)

\* The goroutines parked in the send case of somethingChanged's select.
ParkedTasks == {i \in Tasks : taskpc[i] = "parked"}

HandoffCasesNoDone == {"send"}
\* The cases of somethingChanged's select, lines 124-129.
HandoffCases == {"send", "done"}

HandoffDrops == "abandoned"
\* somethingChanged's select has no default case: with neither case ready the
\* goroutine parks until Done is closed or the send can proceed.
HandoffBlocked == "parked"

SentStaysReady == "ready"
\* After the send case somethingChanged returns: the goroutine ends.
AfterSend == "sent"

\* somethingChanged (lines 123-130), the select of the goroutine of firing i.
\* m.ctx is read here; a nil m.ctx (newOSMon has not reached line 63) makes
\* m.ctx.Done() panic, which ends the process.
somethingChanged(i) ==
    /\ ~crashed
    /\ i \in Tasks
    /\ taskpc[i] = "ready"
    /\ IF ctx = "nil"
       THEN /\ taskpc' = [taskpc EXCEPT ![i] = "panicked"]
            /\ crashed' = TRUE
            /\ UNCHANGED <<messagec, rxpc, rxRes, enqLog, enqAfterCancel>>
       ELSE /\ crashed' = crashed
            /\ \/ \* case <-m.ctx.Done()
                  /\ "done" \in HandoffCases
                  /\ ctx = "cancelled"
                  /\ taskpc' = [taskpc EXCEPT ![i] = "abandoned"]
                  /\ UNCHANGED <<messagec, rxpc, rxRes, enqLog, enqAfterCancel>>
               \/ \* case m.messagec <- eventMessage{...}, handed to a parked Receive
                  /\ rxpc = "parked"
                  /\ rxpc' = "ret"
                  /\ rxRes' = eventMessage(i, fired[i])
                  /\ taskpc' = [taskpc EXCEPT ![i] = AfterSend]
                  /\ enqLog' = Append(enqLog, i)
                  /\ enqAfterCancel' = (enqAfterCancel \/ ctx = "cancelled")
                  /\ UNCHANGED messagec
               \/ \* case m.messagec <- eventMessage{...}, into the buffer
                  /\ rxpc # "parked"
                  /\ SlotFree(messagec)
                  /\ messagec' = Append(messagec, eventMessage(i, fired[i]))
                  /\ taskpc' = [taskpc EXCEPT ![i] = AfterSend]
                  /\ enqLog' = Append(enqLog, i)
                  /\ enqAfterCancel' = (enqAfterCancel \/ ctx = "cancelled")
                  /\ UNCHANGED <<rxpc, rxRes>>
               \/ \* no case ready
                  /\ ~("done" \in HandoffCases /\ ctx = "cancelled")
                  /\ rxpc # "parked"
                  /\ ~SlotFree(messagec)
                  /\ taskpc' = [taskpc EXCEPT ![i] = HandoffBlocked]
                  /\ UNCHANGED <<messagec, rxpc, rxRes, enqLog, enqAfterCancel>>
    /\ UNCHANGED <<ctx, noDeadlockTicker, fired, received, deliveredAfterCancel,
                   rxEnteredCancelled, blockedAtClose>>
    /\ UNCHANGED <<consVars, subVars, closeVars>>

----------------------------------------------------------------------------
ClosedOnEntryNever(c) == FALSE
\* Receive, line 94: m.ctx.Err() != nil.
ClosedOnEntry(c) == c = "cancelled"

ReceiveCasesNoDone == {"msg"}
\* The cases of Receive's select, lines 101-107.
ReceiveCases == {"msg", "done"}

ReceiveGivesUp == "ret"
\* Receive's select has no default case: with neither case ready the consumer
\* parks until an event is sent or Done is closed.
ReceiveBlocked == "parked"

\* Receive, lines 93-99: the call and its check of the context.
ReceiveEnter ==
    /\ ~crashed
    /\ cons = "done"
    /\ rxpc = "idle"
    /\ rxEnteredCancelled' = (ctx = "cancelled")
    /\ blockedAtClose' = FALSE
    /\ IF ClosedOnEntry(ctx)
       THEN /\ rxpc' = "ret"
            /\ rxRes' = errClosed
       ELSE /\ rxpc' = "select"
            /\ rxRes' = NoResult
    /\ UNCHANGED <<ctx, noDeadlockTicker, messagec, crashed, received, deliveredAfterCancel>>
    /\ UNCHANGED <<consVars, subVars, taskVars, closeVars>>

\* Receive, lines 101-107: the select. Taking the head of a full buffer lets
\* one parked sender put its event into the freed slot in the same step.
ReceiveSelect ==
    /\ ~crashed
    /\ rxpc = "select"
    /\ \/ \* case msg := <-m.messagec
          /\ "msg" \in ReceiveCases
          /\ Len(messagec) > 0
          /\ rxRes' = Head(messagec)
          /\ rxpc' = "ret"
          /\ deliveredAfterCancel' = (deliveredAfterCancel \/ ctx = "cancelled")
          /\ IF ParkedTasks = {}
             THEN /\ messagec' = Dequeue(messagec)
                  /\ UNCHANGED <<taskpc, enqLog>>
             ELSE \E i \in ParkedTasks :
                  /\ messagec' = Append(Dequeue(messagec), eventMessage(i, fired[i]))
                  /\ taskpc' = [taskpc EXCEPT ![i] = AfterSend]
                  /\ enqLog' = Append(enqLog, i)
       \/ \* case <-m.ctx.Done()
          /\ "done" \in ReceiveCases
          /\ ctx = "cancelled"
          /\ rxRes' = errClosed
          /\ rxpc' = "ret"
          /\ UNCHANGED <<messagec, taskpc, enqLog, deliveredAfterCancel>>
       \/ \* no case ready
          /\ ~("msg" \in ReceiveCases /\ Len(messagec) > 0)
          /\ ~("done" \in ReceiveCases /\ ctx = "cancelled")
          /\ rxpc' = ReceiveBlocked
          /\ UNCHANGED <<rxRes, messagec, taskpc, enqLog, deliveredAfterCancel>>
    /\ UNCHANGED <<ctx, noDeadlockTicker, crashed, fired, enqAfterCancel, received,
                   rxEnteredCancelled, blockedAtClose>>
    /\ UNCHANGED <<consVars, subVars, closeVars>>

\* Receive returns (msg, nil) or (nil, errClosed) to the consumer.
ReceiveReturn ==
    /\ ~crashed
    /\ rxpc = "ret"
    /\ rxpc' = "idle"
    /\ received' = IF rxRes.kind \in Kinds THEN Append(received, rxRes) ELSE received
    /\ UNCHANGED <<ctx, noDeadlockTicker, messagec, crashed, rxRes, deliveredAfterCancel,
                   rxEnteredCancelled, blockedAtClose>>
    /\ UNCHANGED <<consVars, subVars, taskVars, closeVars>>

----------------------------------------------------------------------------
RecordErrFirst(ret, res, err) == IF res = "fail" /\ ret = "nil" THEN err ELSE ret
RecordErrOverwrite(ret, res, err) == IF res = "fail" THEN err ELSE "nil"
\* Close, lines 75 and 84: ret = err only when Unregister failed.
RecordErr(ret, res, err) == IF res = "fail" THEN err ELSE ret

HandleDropped(res) == "nil"
HandleKept(res) == "set"
\* Close, lines 77 and 86: the handle is set to nil only when Unregister succeeded.
HandleAfter(res) == IF res = "ok" THEN "nil" ELSE "set"

CtxLeftLive == "live"
\* Close, line 69: m.cancel() cancels the context, for good.
CtxAfterCancel == "cancelled"

\* Close, lines 68-70: the call, m.cancel() and m.noDeadlockTicker.Stop().
\* Closing Done wakes every goroutine parked in a select that has a Done case.
CloseCancel ==
    /\ ~crashed
    /\ cons = "done"
    /\ closepc = "idle"
    /\ Len(closeLog) < MaxCloses
    /\ ctx' = CtxAfterCancel
    /\ noDeadlockTicker' = "stopped"
    /\ closepc' = "addr"
    /\ closeRet' = "nil"
    /\ closeCur' = [addr |-> "skipped", route |-> "skipped"]
    /\ taskpc' = [i \in Tasks |-> IF taskpc[i] = "parked" /\ "done" \in HandoffCases
                                   THEN "abandoned" ELSE taskpc[i]]
    /\ IF rxpc = "parked" /\ "done" \in ReceiveCases
       THEN /\ rxpc' = "ret"
            /\ rxRes' = errClosed
       ELSE UNCHANGED <<rxpc, rxRes>>
    /\ blockedAtClose' = (blockedAtClose \/ rxpc = "parked")
    /\ UNCHANGED <<messagec, crashed, fired, enqLog, enqAfterCancel,
                   received, deliveredAfterCancel, rxEnteredCancelled, closeLog>>
    /\ UNCHANGED <<consVars, subVars>>

\* Close, lines 72-79: release the address-change subscription.
CloseAddress ==
    /\ ~crashed
    /\ closepc = "addr"
    /\ closepc' = "route"
    /\ IF addressChangeCallback # "nil"
       THEN \E ok \in BOOLEAN :
            LET res == IF ok THEN "ok" ELSE "fail" IN
            /\ osReg' = [osReg EXCEPT !.addr = Unregister(osReg.addr, ok)]
            /\ closeRet' = RecordErr(closeRet, res, "addrErr")
            /\ addressChangeCallback' = HandleAfter(res)
            /\ closeCur' = [closeCur EXCEPT !.addr = res]
       ELSE UNCHANGED <<osReg, closeRet, addressChangeCallback, closeCur>>
    /\ UNCHANGED <<ctx, noDeadlockTicker, routeChangeCallback, messagec, crashed, closeLog>>
    /\ UNCHANGED <<consVars, taskVars, rxVars>>

\* Close, lines 81-90: release the route-change subscription and return ret.
CloseRoute ==
    /\ ~crashed
    /\ closepc = "route"
    /\ closepc' = "idle"
    /\ IF routeChangeCallback # "nil"
       THEN \E ok \in BOOLEAN :
            LET res == IF ok THEN "ok" ELSE "fail" IN
            /\ osReg' = [osReg EXCEPT !.route = Unregister(osReg.route, ok)]
            /\ closeRet' = RecordErr(closeRet, res, "routeErr")
            /\ routeChangeCallback' = HandleAfter(res)
            /\ closeCur' = [closeCur EXCEPT !.route = res]
       ELSE UNCHANGED <<osReg, closeRet, routeChangeCallback, closeCur>>
    /\ closeLog' = Append(closeLog, [addr |-> closeCur'.addr, route |-> closeCur'.route,
                                     ret |-> closeRet'])
    /\ UNCHANGED <<ctx, noDeadlockTicker, addressChangeCallback, messagec, crashed>>
    /\ UNCHANGED <<consVars, taskVars, rxVars>>

----------------------------------------------------------------------------
Next ==
    \/ NewRegisterAddress
    \/ NewRegisterRoute
    \/ NewRollback
    \/ NewContext
    \/ unicastAddressChanged
    \/ routeChanged
    \/ \E i \in 1..MaxFirings : somethingChanged(i)
    \/ ReceiveEnter
    \/ ReceiveSelect
    \/ ReceiveReturn
    \/ CloseCancel
    \/ CloseAddress
    \/ CloseRoute

Spec == Init /\ [][Next]_vars

\* The Go scheduler eventually runs every runnable goroutine, and the consumer
\* keeps calling Receive. Close and the OS callbacks are under no obligation.
LiveSpec ==
    /\ Spec
    /\ WF_vars(ReceiveEnter)
    /\ WF_vars(ReceiveSelect)
    /\ WF_vars(ReceiveReturn)
    /\ \A i \in 1..MaxFirings : WF_vars(somethingChanged(i))

----------------------------------------------------------------------------
\* Properties.

Last(q) == q[Len(q)]
ReceivedIds == {received[k].id : k \in 1..Len(received)}
CloseReturned == closepc = "idle" /\ Len(closeLog) > 0

\* C1: no Receive select takes an event out of the channel once Close has
\* cancelled the context, also not a Receive that passed its entry check
\* before Close ran and reaches its select while an event is in the channel.
C1_NoEventAfterClosed == ~deliveredAfterCancel

\* C2: a Receive call that starts with the context cancelled returns errClosed
\* straight from its entry check: it never reaches the select, never parks and
\* leaves messagec as it is, whatever messagec holds.
C2_ReceiveAfterCloseFailsAtOnce ==
    [][ /\ (rxpc = "idle" /\ rxpc' # "idle" /\ ctx = "cancelled")
            => (rxpc' = "ret" /\ rxRes' = errClosed /\ messagec' = messagec)
        /\ (rxEnteredCancelled /\ rxpc = "ret" /\ rxpc' # "ret")
            => (rxpc' = "idle" /\ rxRes' = errClosed /\ messagec' = messagec
                /\ received' = received) ]_vars

C2_Witness ==
    /\ rxEnteredCancelled
    /\ rxpc = "idle"
    /\ rxRes = errClosed
    /\ Len(messagec) = ChanCap

\* C3: a Receive call parked in its select (empty channel) when Close cancels
\* the context is woken with errClosed and eventually returns errClosed.
C3_BlockedReceiveUnblocks ==
    /\ [](blockedAtClose => (rxpc \in {"ret", "idle"} /\ rxRes = errClosed))
    /\ (blockedAtClose ~> (blockedAtClose /\ rxpc = "idle" /\ rxRes = errClosed))

C3_Witness ==
    /\ blockedAtClose
    /\ rxpc = "idle"
    /\ rxRes = errClosed

\* C4 as stated: after any Close call has returned, with success or with an
\* error, neither subscription is registered with the OS.
C4_NothingRegisteredAfterClose ==
    CloseReturned => (~osReg.addr /\ ~osReg.route)

\* C4 amended: after a Close call that returned success neither subscription
\* is registered; after a Close call that returned an error exactly the
\* subscriptions whose Unregister failed in that call are still registered,
\* and their handles are kept.
C4_Amended ==
    CloseReturned =>
        /\ Last(closeLog).ret = "nil" => (~osReg.addr /\ ~osReg.route)
        /\ osReg.addr <=> Last(closeLog).addr = "fail"
        /\ osReg.route <=> Last(closeLog).route = "fail"
        /\ osReg.addr <=> addressChangeCallback = "set"
        /\ osReg.route <=> routeChangeCallback = "set"

C4_Witness ==
    /\ CloseReturned
    /\ Len(closeLog) = 2
    /\ closeLog[1].ret # "nil"
    /\ closeLog[2].ret = "nil"
    /\ ~osReg.addr
    /\ ~osReg.route

\* C5: once a first Close call has released both subscriptions, every later
\* Close call calls Unregister on neither, returns success, and the context
\* stays cancelled.
C5_CloseIdempotent ==
    (Len(closeLog) >= 1 /\ closeLog[1].addr = "ok" /\ closeLog[1].route = "ok") =>
        /\ ctx = "cancelled"
        /\ closepc # "idle" =>
               (closeCur.addr = "skipped" /\ closeCur.route = "skipped" /\ closeRet = "nil")
        /\ \A j \in 2..Len(closeLog) :
               /\ closeLog[j].addr = "skipped"
               /\ closeLog[j].route = "skipped"
               /\ closeLog[j].ret = "nil"

C5_Witness ==
    /\ Len(closeLog) = 2
    /\ closeLog[1].addr = "ok"
    /\ closeLog[1].route = "ok"
    /\ closeLog[2].ret = "nil"

\* C6: when newOSMon fails it returns the registration error and nothing is
\* left registered: a failed address registration means the route
\* registration was never attempted, a failed route registration means the
\* address subscription is unregistered again.
C6_FailedOpenLeavesNothing ==
    cons = "failed" =>
        /\ openErr # "none"
        /\ regLog.addr = "fail" => (regLog.route = "none" /\ openErr = "addrErr")
        /\ regLog.route = "fail" => openErr = "routeErr"
        /\ ~osReg.addr
        /\ ~osReg.route

\* C7 as stated: as long as Close has not been called, successful Receive
\* calls return the events in the order in which their callbacks fired.
C7_ReceivedInFiringOrder ==
    ctx # "cancelled" =>
        \A a, b \in 1..Len(received) : a < b => received[a].id < received[b].id

\* C7 amended: successful Receive calls return the events in the order in
\* which the hand-off goroutines put them into the channel, each with the
\* kind of its callback; that order is not bound to the firing order.
C7_Amended ==
    /\ Len(received) <= Len(enqLog)
    /\ \A k \in 1..Len(received) :
           /\ received[k].id = enqLog[k]
           /\ received[k].kind = fired[enqLog[k]]

C7_Witness ==
    /\ ctx = "live"
    /\ Len(received) >= 2
    /\ received[1].id > received[2].id

\* C8: events are never duplicated or invented: every returned event stems
\* from a callback firing of its kind, no firing is returned twice, and per
\* kind no more events are returned than callbacks fired.
C8_NoDuplication ==
    /\ \A a \in 1..Len(received) :
           /\ received[a].id \in Tasks
           /\ received[a].kind = fired[received[a].id]
    /\ \A a, b \in 1..Len(received) : a # b => received[a].id # received[b].id
    /\ \A k \in Kinds :
           Cardinality({a \in 1..Len(received) : received[a].kind = k})
               <= Cardinality({i \in Tasks : fired[i] = k})

C8_Witness ==
    /\ Len(received) >= 2
    /\ \E a, b \in 1..Len(received) : received[a].kind = "addr" /\ received[b].kind = "route"

\* An event that is neither lost nor returned yet: its goroutine still waits
\* to send it, or it is in the channel, or Receive holds it and is returning.
InFlight(i) ==
    \/ taskpc[i] \in {"ready", "parked"}
    \/ \E k \in 1..Len(messagec) : messagec[k].id = i
    \/ rxpc = "ret" /\ rxRes.id = i

\* C9: while the context is live no event is dropped or overwritten (a
\* goroutine finding the slot full keeps waiting), and with the consumer
\* calling Receive again and again every firing is eventually returned by a
\* Receive unless Close cancels first.
C9_DelayedNotDropped ==
    /\ [](ctx = "live" => \A i \in Tasks : InFlight(i) \/ i \in ReceivedIds)
    /\ \A i \in 1..MaxFirings :
           (i \in Tasks /\ ctx = "live") ~> (ctx = "cancelled" \/ i \in ReceivedIds)

C9_Witness ==
    /\ ctx = "live"
    /\ Len(messagec) = ChanCap
    /\ \E i \in Tasks : taskpc[i] = "parked"

\* C10: once Close has cancelled the context no somethingChanged goroutine
\* puts an event into the channel.
C10_NoEnqueueAfterCancel == ~enqAfterCancel

\* A callback may still be called: its kind is registered, the process runs,
\* and the explored number of firings is not used up.
MayFire(kind) == osReg[kind] /\ ~crashed /\ Len(fired) < MaxFirings

\* C11: a callback never waits: whenever the OS may call it, it can run to
\* its return at once (slot full or free, context nil, live or cancelled,
\* goroutines already waiting or not), and all it does is spawn one
\* goroutine: it touches neither the channel, nor the context, nor Receive.
C11_CallbackNeverBlocks ==
    /\ [](MayFire("addr") => ENABLED unicastAddressChanged)
    /\ [](MayFire("route") => ENABLED routeChanged)
    /\ [][Len(fired') # Len(fired) =>
            /\ Len(fired') = Len(fired) + 1
            /\ taskpc' = Append(taskpc, "ready")
            /\ UNCHANGED <<messagec, ctx, rxpc, rxRes, enqLog, received>>]_vars

C11_Witness ==
    /\ ctx = "cancelled"
    /\ Len(messagec) = ChanCap
    /\ Len(fired) >= 2
    /\ taskpc[Len(fired)] = "ready"

\* C12: a Receive call never returns on an open bridge with nothing to
\* return: its outcome is decided only by taking the head of the channel, by
\* a sender handing its event over to the parked call, or by the cancelled
\* context; while it is parked the channel is empty and the context live.
C12_ReceiveBlocksWhileEmpty ==
    /\ [](rxpc = "parked" => (messagec = << >> /\ ctx = "live"))
    /\ [][(rxpc # "ret" /\ rxpc' = "ret") =>
            \/ /\ rxRes' = errClosed
               /\ ctx' = "cancelled"
               /\ messagec' = messagec
            \/ /\ rxRes'.kind \in Kinds
               /\ messagec # << >>
               /\ rxRes' = Head(messagec)
               /\ \A k \in 1..Len(messagec') : messagec'[k].id # rxRes'.id
            \/ /\ rxRes'.kind \in Kinds
               /\ rxpc = "parked"
               /\ messagec = << >>
               /\ enqLog' = Append(enqLog, rxRes'.id)]_vars

C12_Witness ==
    /\ ctx = "live"
    /\ rxpc = "parked"
    /\ Len(received) >= 1

\* Whether the subscription sub had been released by a Close call before the
\* j-th one.
ReleasedBefore(sub, j) == \E h \in 1..(j - 1) : closeLog[h][sub] = "ok"

\* C13: Close does not stop at a failed release: the route subscription is
\* still tried after the address release failed; Close returns nil exactly
\* when no release of that call failed, the route error when the route
\* release failed, the address error when only the address release failed.
C13_CloseRecordsLastError ==
    /\ closepc = "route" => closeRet = (IF closeCur.addr = "fail" THEN "addrErr" ELSE "nil")
    /\ \A j \in 1..Len(closeLog) :
        LET c == closeLog[j] IN
           /\ c.addr = "fail" => (c.route # "skipped" \/ ReleasedBefore("route", j))
           /\ c.ret = "nil" <=> (c.addr # "fail" /\ c.route # "fail")
           /\ c.route = "fail" => c.ret = "routeErr"
           /\ (c.addr = "fail" /\ c.route # "fail") => c.ret = "addrErr"

C13_Witness ==
    /\ Len(closeLog) >= 1
    /\ closeLog[1].addr = "fail"
    /\ closeLog[1].route = "fail"
    /\ closeLog[1].ret = "routeErr"

\* C14: the channel never holds more than one pending event.
C14_SingleSlot == Len(messagec) <= 1

C14_Witness ==
    /\ Len(messagec) = 1
    /\ Len(fired) >= 2
    /\ \A i \in Tasks : taskpc[i] \in {"sent", "parked", "ready"}
    /\ \E i \in Tasks : taskpc[i] = "ready"
    /\ received = << >>

\* C15: Close cancels before it releases anything: whenever a Close call is
\* under way or has returned, a release has been attempted, or a subscription
\* of the constructed bridge is gone, the context is cancelled; a goroutine
\* spawned while Close is unregistering finds it cancelled.
C15_CancelBeforeRelease ==
    (\/ closepc # "idle"
     \/ Len(closeLog) > 0
     \/ closeCur.addr # "skipped"
     \/ closeCur.route # "skipped"
     \/ cons = "done" /\ (~osReg.addr \/ ~osReg.route)
     \/ cons = "done" /\ (addressChangeCallback = "nil" \/ routeChangeCallback = "nil"))
        => ctx = "cancelled"

C15_Witness ==
    /\ closepc = "route"
    /\ closeCur.addr = "ok"
    /\ osReg.route
    /\ ctx = "cancelled"
    /\ \E i \in Tasks : taskpc[i] = "ready"

\* C16: over sequential Close calls each subscription is released at most
\* once: Unregister is never called on a subscription that an earlier call
\* released, and a subscription whose Unregister failed is tried again by the
\* next Close call.
C16_ReleaseAtMostOnce ==
    /\ closepc = "route" /\ ReleasedBefore("addr", Len(closeLog) + 1)
           => closeCur.addr = "skipped"
    /\ \A sub \in {"addr", "route"} : \A j \in 1..Len(closeLog) :
           /\ closeLog[j][sub] # "skipped" => ~ReleasedBefore(sub, j)
           /\ (j > 1 /\ closeLog[j - 1][sub] = "fail") => closeLog[j][sub] # "skipped"
           /\ closeLog[j][sub] = "skipped" => ReleasedBefore(sub, j)

C16_Witness ==
    /\ Len(closeLog) = 2
    /\ closeLog[1].addr = "fail"
    /\ closeLog[1].route = "ok"
    /\ closeLog[2].addr = "ok"
    /\ closeLog[2].route = "skipped"

\* C17: the heartbeat ticker does not outlive its bridge: it is stopped once
\* Close has run, and it is stopped when newOSMon has failed.
C17_TickerStoppedWithBridge ==
    /\ (closepc # "idle" \/ Len(closeLog) > 0) => noDeadlockTicker = "stopped"
    /\ cons = "failed" => noDeadlockTicker = "stopped"

\* Every event in the channel stays where it is.
QueueKept == Len(messagec') >= Len(messagec) /\ SubSeq(messagec', 1, Len(messagec)) = messagec

\* C18: a Receive call that fails with errClosed removes nothing: the step
\* that decides on errClosed and every later step leave the events in the
\* channel in place and return none of them, and every later Receive fails
\* with errClosed too.
C18_ClosedReceiveKeepsQueue ==
    /\ [][rxRes' = errClosed => (QueueKept /\ received' = received)]_vars
    /\ [][rxRes = errClosed => rxRes' = errClosed]_vars

C18_Witness ==
    /\ rxRes = errClosed
    /\ rxpc = "idle"
    /\ ~rxEnteredCancelled
    /\ ~blockedAtClose
    /\ Len(messagec) = 1

\* C19: no goroutine spawned by a callback reaches its select before
\* newOSMon has created the context.
C19_ContextBeforeHandoff ==
    /\ ~crashed
    /\ \A i \in Tasks : taskpc[i] # "panicked"

====
